---- MODULE Spec2Model ----
(***************************************************************************)
(* open_in_editor.py: a handler for editor:// URIs.  parse_uri decodes a   *)
(* URI into (path, line); open_editor dispatches to an editor strategy     *)
(* that spawns one external process.                                       *)
(*                                                                         *)
(* Strings are sequences of one-character strings.  The character U+FFFD   *)
(* (what unquote leaves for an undecodable byte) is written "U+FFFD".      *)
(* Optional[int] and Optional[str] are sequences of length at most one:    *)
(* <<>> is None, <<v>> is the value v.                                     *)
(***************************************************************************)
EXTENDS Integers, Sequences, FiniteSets

\* ------------------------------------------------------------ bounds
\* parse_uri alone: the longest free-form text after an editor prefix.
MaxLen == 4
\* parse_uri alone: the longest text after another prefix, and the longest
\* path in front of a query string.
MaxQueryPathLen == 3
\* A whole invocation: the longest free-form text and the longest path in
\* front of a query string.
MaxOpenLen == 2

\* ------------------------------------------------------------ characters
None == <<>>

Some(v) == <<v>>

\* Printable ASCII, code points 32..126 in order (the grave accent, which a
\* TLA+ string cannot hold, is written "U+0060").
Ascii ==
    <<" ", "!", "\"", "#", "$", "%", "&", "'", "(", ")", "*", "+", ",", "-", ".", "/",
       "0", "1", "2", "3", "4", "5", "6", "7", "8", "9", ":", ";", "<", "=", ">", "?",
       "@", "A", "B", "C", "D", "E", "F", "G", "H", "I", "J", "K", "L", "M", "N", "O",
       "P", "Q", "R", "S", "T", "U", "V", "W", "X", "Y", "Z", "[", "\\", "]", "^", "_",
       "U+0060", "a", "b", "c", "d", "e", "f", "g", "h", "i", "j", "k", "l", "m", "n", "o",
       "p", "q", "r", "s", "t", "u", "v", "w", "x", "y", "z", "{", "|", "}", "~">>

REPLACEMENT == "U+FFFD"

\* chr() of one decoded byte: bytes.decode('utf-8', 'replace') of a byte that
\* is not part of a multi-byte sequence.
Chr(n) ==
    IF n \in 32..126 THEN Ascii[n - 31]
    ELSE IF n = 9 THEN "\t"
    ELSE IF n = 10 THEN "\n"
    ELSE IF n = 13 THEN "\r"
    ELSE IF n = 12 THEN "\f"
    ELSE IF n < 128 THEN "U+00"
    ELSE REPLACEMENT

Digits == <<"0", "1", "2", "3", "4", "5", "6", "7", "8", "9">>

LowerLetters == <<"a", "b", "c", "d", "e", "f", "g", "h", "i", "j", "k", "l", "m", "n", "o", "p", "q", "r", "s", "t", "u", "v", "w", "x", "y", "z">>

UpperLetters == <<"A", "B", "C", "D", "E", "F", "G", "H", "I", "J", "K", "L", "M", "N", "O", "P", "Q", "R", "S", "T", "U", "V", "W", "X", "Y", "Z">>

IndexIn(tbl, c) == CHOOSE k \in 1..Len(tbl) : tbl[k] = c

Range(s) == {s[k] : k \in 1..Len(s)}

IsDigit(c) == c \in Range(Digits)

DigitVal(c) == IndexIn(Digits, c) - 1

IsLower(c) == c \in Range(LowerLetters)

IsUpper(c) == c \in Range(UpperLetters)

IsHex(c) ==
    \/ IsDigit(c)
    \/ c \in {"a", "b", "c", "d", "e", "f"}
    \/ c \in {"A", "B", "C", "D", "E", "F"}

HexVal(c) ==
    IF IsDigit(c) THEN DigitVal(c)
    ELSE IF IsLower(c) THEN 9 + IndexIn(LowerLetters, c)
    ELSE 9 + IndexIn(UpperLetters, c)

\* str.lower() of one character.
LowerChar(c) == IF IsUpper(c) THEN LowerLetters[IndexIn(UpperLetters, c)] ELSE c

Lower(s) == [k \in 1..Len(s) |-> LowerChar(s[k])]

\* str.isspace() of one character.
IsSpace(c) == c \in {" ", "\t", "\n", "\r", "\f"}

\* ------------------------------------------------------------ str helpers
\* str.find(c, from): the first position >= from holding c, 0 when there is none.
Find(s, c, from) ==
    LET hits == {k \in from..Len(s) : s[k] = c}
    IN  IF hits = {} THEN 0 ELSE CHOOSE k \in hits : \A j \in hits : k <= j

\* str.rfind(c): the last position holding c, 0 when there is none.
RFind(s, c) ==
    LET hits == {k \in 1..Len(s) : s[k] = c}
    IN  IF hits = {} THEN 0 ELSE CHOOSE k \in hits : \A j \in hits : k >= j

Drop(s, n) == SubSeq(s, n + 1, Len(s))

Take(s, n) == SubSeq(s, 1, n)

\* str.replace(c, d) for single characters.
Replace(s, c, d) == [k \in 1..Len(s) |-> IF s[k] = c THEN d ELSE s[k]]

\* str.replace(c, ""): every c removed.
Remove(s, cs) == SelectSeq(s, LAMBDA c : c \notin cs)

\* str.lstrip(chars)
RECURSIVE LStrip(_, _)
LStrip(s, cs) ==
    IF s # <<>> /\ s[1] \in cs THEN LStrip(Drop(s, 1), cs) ELSE s

\* str.strip() of whitespace
RECURSIVE RStripSpace(_)
RStripSpace(s) ==
    IF s # <<>> /\ IsSpace(s[Len(s)]) THEN RStripSpace(Take(s, Len(s) - 1)) ELSE s

StripSpace(s) == RStripSpace(LStrip(s, {" ", "\t", "\n", "\r", "\f"}))

\* str.split(c): the pieces between the occurrences of c.
RECURSIVE Split(_, _)
Split(s, c) ==
    LET i == Find(s, c, 1)
    IN  IF i = 0 THEN <<s>> ELSE <<Take(s, i - 1)>> \o Split(Drop(s, i), c)

\* ------------------------------------------------------------ constants
PROTOCOL_NAME == <<"e", "d", "i", "t", "o", "r">>

LINE_KEY == <<"l", "i", "n", "e">>

\* ------------------------------------------------------------ urllib.parse
\* Characters a scheme may hold (urllib.parse.scheme_chars).
IsSchemeChar(c) == IsLower(c) \/ IsUpper(c) \/ IsDigit(c) \/ c \in {"+", "-", "."}

\* The characters urlsplit strips from the left of the URL (C0 controls, space)
\* and the ones it removes everywhere (tab, CR, LF).
C0_CONTROL_OR_SPACE == {" ", "\t", "\n", "\r", "\f", "U+00"}

UNSAFE_URL_BYTES_TO_REMOVE == {"\t", "\r", "\n"}

\* _splitnetloc(url, 2): the position of the first of "/", "?", "#" after the
\* leading "//", Len(url) + 1 when there is none.
NetlocEnd(url) ==
    LET hits == {k \in 3..Len(url) : url[k] \in {"/", "?", "#"}}
    IN  IF hits = {} THEN Len(url) + 1 ELSE CHOOSE k \in hits : \A j \in hits : k <= j

\* urlsplit, last steps: the fragment is cut at the first "#", then the query
\* at the first "?".  invalid: urlsplit raised ValueError("Invalid IPv6 URL").
SplitQuery(scheme, netloc, url, fragment) ==
    LET q == Find(url, "?", 1)
    IN  [scheme   |-> scheme,
         netloc   |-> netloc,
         path     |-> IF q = 0 THEN url ELSE Take(url, q - 1),
         query    |-> IF q = 0 THEN <<>> ELSE Drop(url, q),
         fragment |-> fragment,
         invalid  |-> ("[" \in Range(netloc)) # ("]" \in Range(netloc))]

SplitFragment(scheme, netloc, url) ==
    LET h == Find(url, "#", 1)
    IN  IF h = 0 THEN SplitQuery(scheme, netloc, url, <<>>)
        ELSE SplitQuery(scheme, netloc, Take(url, h - 1), Drop(url, h))

\* urlsplit: a leading "//" starts the netloc.
SplitNetloc(scheme, url) ==
    IF Len(url) >= 2 /\ url[1] = "/" /\ url[2] = "/"
    THEN SplitFragment(scheme, SubSeq(url, 3, NetlocEnd(url) - 1),
                       Drop(url, NetlocEnd(url) - 1))
    ELSE SplitFragment(scheme, <<>>, url)

\* urlsplit: the text before the first ":" is the scheme (lower-cased) when it
\* starts with an ASCII letter and holds scheme characters only.
SplitScheme(url) ==
    LET i == Find(url, ":", 1)
    IN  IF /\ i > 1
           /\ IsLower(url[1]) \/ IsUpper(url[1])
           /\ \A k \in 1..(i - 1) : IsSchemeChar(url[k])
        THEN SplitNetloc(Lower(Take(url, i - 1)), Drop(url, i))
        ELSE SplitNetloc(<<>>, url)

\* urlparse(uri) for a scheme outside uses_params (";" is left in the path).
\* A netloc holding both "[" and "]" (a bracketed host, which urlsplit goes on
\* to validate) is not among the inputs.
urlparse(uri) ==
    SplitScheme(Remove(LStrip(uri, C0_CONTROL_OR_SPACE), UNSAFE_URL_BYTES_TO_REMOVE))

\* unquote(s): every %xx with two hex digits becomes the character of that
\* byte; any other "%" stays.  Bytes of 0x80 and above are decoded one by one
\* (a continuation byte without its lead byte decodes to U+FFFD).
RECURSIVE UnquoteFrom(_, _)
UnquoteFrom(s, i) ==
    IF i > Len(s) THEN <<>>
    ELSE IF s[i] = "%" /\ i + 2 <= Len(s) /\ IsHex(s[i + 1]) /\ IsHex(s[i + 2])
         THEN <<Chr(16 * HexVal(s[i + 1]) + HexVal(s[i + 2]))>> \o UnquoteFrom(s, i + 3)
         ELSE <<s[i]>> \o UnquoteFrom(s, i + 1)

unquote(s) == UnquoteFrom(s, 1)

\* One name=value field of parse_qsl: <<>> when the field is dropped (empty, no
\* "=", or a blank value), else <<(name, value)>>.
QueryField(name_value) ==
    LET e     == Find(name_value, "=", 1)
        name  == Take(name_value, e - 1)
        value == Drop(name_value, e)
    IN  IF name_value = <<>> \/ e = 0 \/ value = <<>> THEN <<>>
        ELSE << <<unquote(Replace(name, "+", " ")), unquote(Replace(value, "+", " "))>> >>

RECURSIVE QueryFields(_)
QueryFields(pieces) ==
    IF pieces = <<>> THEN <<>>
    ELSE QueryField(pieces[1]) \o QueryFields(Drop(pieces, 1))

\* parse_qsl(qs): the list of (name, value) pairs.
parse_qsl(qs) == IF qs = <<>> THEN <<>> ELSE QueryFields(Split(qs, "&"))

\* dict(pairs).get(key, None): the value of the last pair named key.
DictGet(pairs, key) ==
    LET hits == {k \in 1..Len(pairs) : pairs[k][1] = key}
    IN  IF hits = {} THEN None
        ELSE Some(pairs[CHOOSE k \in hits : \A j \in hits : k >= j][2])

\* ------------------------------------------------------------ int()
\* The text int() reads after stripping whitespace and one sign.
IntBody(s) ==
    LET t == StripSpace(s)
    IN  IF t # <<>> /\ t[1] \in {"+", "-"} THEN Drop(t, 1) ELSE t

\* Whether int(s) returns (base 10: digits, single underscores between digits).
IsIntLiteral(s) ==
    LET b == IntBody(s)
    IN  /\ b # <<>>
        /\ \A k \in 1..Len(b) :
              \/ IsDigit(b[k])
              \/ /\ b[k] = "_"
                 /\ 1 < k /\ k < Len(b)
                 /\ IsDigit(b[k - 1]) /\ IsDigit(b[k + 1])

RECURSIVE Magnitude(_)
Magnitude(ds) ==
    IF ds = <<>> THEN 0
    ELSE 10 * Magnitude(Take(ds, Len(ds) - 1)) + DigitVal(ds[Len(ds)])

\* int(s) for a text IsIntLiteral accepts.
ParseInt(s) ==
    LET t == StripSpace(s)
        m == Magnitude(Remove(IntBody(s), {"_"}))
    IN  IF t[1] = "-" THEN 0 - m ELSE m

\* ------------------------------------------------------------ parse_uri
Returned(path, linenum) == [exc |-> "", path |-> path, linenum |-> linenum]

Raised(exc) == [exc |-> exc, path |-> <<>>, linenum |-> None]

\* Mutant: split(':', 1) for rsplit, the first colon instead of the last.
SplitTrailingLine_FirstColon(path) ==
    LET c == Find(path, ":", 1)
    IN  IF c # 0 /\ IsIntLiteral(Drop(path, c))
        THEN Returned(Take(path, c - 1), Some(ParseInt(Drop(path, c))))
        ELSE Returned(path, None)

\* Mutant: the line is taken but "path = spl[0]" is left out.
SplitTrailingLine_KeepPath(path) ==
    LET c == RFind(path, ":")
    IN  IF c # 0 /\ IsIntLiteral(Drop(path, c))
        THEN Returned(path, Some(ParseInt(Drop(path, c))))
        ELSE Returned(path, None)

\* Mutant: "path = spl[0]" runs whether or not int() raised.
SplitTrailingLine_AlwaysCut(path) ==
    LET c == RFind(path, ":")
    IN  IF c = 0 THEN Returned(path, None)
        ELSE IF IsIntLiteral(Drop(path, c))
        THEN Returned(Take(path, c - 1), Some(ParseInt(Drop(path, c))))
        ELSE Returned(Take(path, c - 1), None)

\* The else branch of parse_uri: path.rsplit(':', maxsplit=1) and int() of the
\* right-hand piece; the path stays whole when int() raises ValueError.
SplitTrailingLine(path) ==
    LET c == RFind(path, ":")
    IN  IF c # 0 /\ IsIntLiteral(Drop(path, c))
        THEN Returned(Take(path, c - 1), Some(ParseInt(Drop(path, c))))
        ELSE Returned(path, None)

\* dict(parse_qsl(pr.query)).get('line', None)
QueryLine(query) == DictGet(parse_qsl(query), LINE_KEY)

\* Mutant: the trailing-colon split is applied to the path even when the query
\* gives the line.
DecodeTarget_SplitAnyway(path, line_s) ==
    IF line_s # None
    THEN IF IsIntLiteral(line_s[1])
         THEN Returned(SplitTrailingLine(path).path, Some(ParseInt(line_s[1])))
         ELSE Raised("ValueError")
    ELSE SplitTrailingLine(path)

\* The line-number part of parse_uri, after the scheme check.
DecodeTarget(path, line_s) ==
    IF line_s # None
    THEN IF IsIntLiteral(line_s[1])
         THEN Returned(path, Some(ParseInt(line_s[1])))
         ELSE Raised("ValueError")
    ELSE SplitTrailingLine(path)

\* Mutant: only a URI without any scheme is rejected.
SchemeMismatch_MissingOnly(pr) == pr.scheme = <<>>

\* Whether parse_uri calls error(): the scheme is not PROTOCOL_NAME.
SchemeMismatch(pr) == pr.scheme # PROTOCOL_NAME

\* parse_uri(uri): the (path, linenum) it returns, or the exception it raises.
\* RuntimeError is what error() raises once its notification is sent.
\* Mutant: the decoded path is stripped of surrounding whitespace.
ParseSplit_Stripped(pr) ==
    IF pr.invalid THEN Raised("ValueError")
    ELSE IF pr.scheme # PROTOCOL_NAME THEN Raised("RuntimeError")
    ELSE DecodeTarget(StripSpace(unquote(pr.path)), QueryLine(pr.query))

\* The body of parse_uri, given what urlparse returned.
ParseSplit(pr) ==
    IF pr.invalid THEN Raised("ValueError")
    ELSE IF SchemeMismatch(pr) THEN Raised("RuntimeError")
    ELSE DecodeTarget(unquote(pr.path), QueryLine(pr.query))

parse_uri(uri) == ParseSplit(urlparse(uri))

\* ------------------------------------------------------------ processes
XDG_OPEN == <<"x", "d", "g", "-", "o", "p", "e", "n">>

OPEN == <<"o", "p", "e", "n">>

GVIM == <<"g", "v", "i", "m">>

VIM == <<"v", "i", "m">>

EMACSCLIENT == <<"e", "m", "a", "c", "s", "c", "l", "i", "e", "n", "t">>

X_TERMINAL_EMULATOR == <<"x", "-", "t", "e", "r", "m", "i", "n", "a", "l", "-", "e", "m", "u", "l", "a", "t", "o", "r">>

\* The keys of EDITORS.
EDITORS == {"emacs", "vim", "gvim", "default"}

\* str(n) of an int.
RECURSIVE NatToStr(_)
NatToStr(n) ==
    IF n < 10 THEN <<Digits[n + 1]>>
    ELSE NatToStr(n \div 10) \o <<Digits[(n % 10) + 1]>>

IntToStr(n) == IF n < 0 THEN <<"-">> \o NatToStr(0 - n) ELSE NatToStr(n)

\* Mutant: the path goes first, the +line after it.
with_line_PathFirst(path, line) ==
    IF line = None THEN <<path>> ELSE << path, <<"+">> \o IntToStr(line[1]) >>

\* with_line(uri, line): [uri] if line is None else [f'+{line}', uri]
with_line(path, line) ==
    IF line = None THEN <<path>> ELSE << <<"+">> \o IntToStr(line[1]), path >>

\* shlex.quote(s)
IsShellSafe(c) ==
    \/ IsLower(c) \/ IsUpper(c) \/ IsDigit(c)
    \/ c \in {"_", "@", "%", "+", "=", ":", ",", ".", "/", "-"}

RECURSIVE EscapeQuotes(_)
EscapeQuotes(s) ==
    IF s = <<>> THEN <<>>
    ELSE (IF s[1] = "'" THEN <<"'", "\"", "'", "\"", "'">> ELSE <<s[1]>>)
         \o EscapeQuotes(Drop(s, 1))

shlex_quote(s) ==
    IF s = <<>> THEN <<"'", "'">>
    ELSE IF \A k \in 1..Len(s) : IsShellSafe(s[k]) THEN s
    ELSE <<"'">> \o EscapeQuotes(s) \o <<"'">>

\* ' '.join(map(shlex.quote, cmd))
RECURSIVE JoinQuoted(_)
JoinQuoted(cmd) ==
    IF cmd = <<>> THEN <<>>
    ELSE IF Len(cmd) = 1 THEN shlex_quote(cmd[1])
    ELSE shlex_quote(cmd[1]) \o <<" ">> \o JoinQuoted(Drop(cmd, 1))

\* The argv launch_in_terminal hands to check_call.
TerminalCommand(cmd) == <<X_TERMINAL_EMULATOR, <<"-", "e">>, JoinQuoted(cmd)>>

\* The argv each strategy hands to check_call.
VimCommand(path, line) == TerminalCommand(<<VIM>> \o with_line(path, line))

GvimCommand(path, line) == <<GVIM>> \o with_line(path, line)

EmacsCommand(path, line) ==
    <<EMACSCLIENT, <<"-", "-", "c", "r", "e", "a", "t", "e", "-", "f", "r", "a", "m", "e">>,
      <<"-", "-", "a", "l", "t", "e", "r", "n", "a", "t", "e", "-", "e", "d", "i", "t", "o", "r", "=", "\"", "\"">>>>
    \o with_line(path, line)

DefaultCommand(open_cmd, path, line) == <<open_cmd, path>>

\* ------------------------------------------------------------ inputs
\* The characters the free-form part of a URI is drawn from: a path
\* separator, a letter (also a hex digit), a digit, and the characters the
\* parser gives a meaning to.
Alphabet == {"/", "A", "3", ":", "%", "?", "#", " "}

\* Every string over cs of length at most n.
RECURSIVE Strings(_, _)
Strings(cs, n) ==
    IF n = 0 THEN {<<>>}
    ELSE LET shorter == Strings(cs, n - 1)
         IN  shorter \cup {Append(t, c) : t \in shorter, c \in cs}

\* The characters of the path in front of a hand-written query string.
QueryPathAlphabet == {"/", ":", "3", " "}

EDITOR_PREFIX == <<"e", "d", "i", "t", "o", "r", ":", "/", "/">>

\* URIs of the scheme editor, with and without the "//" of an authority.
EditorPrefixes == {EDITOR_PREFIX, <<"e", "d", "i", "t", "o", "r", ":">>}

\* URIs of another scheme, and of none.
OtherPrefixes == {<<"b", "a", "d", "m", "i", "m", "e", ":", "/", "/">>, <<>>}

\* Query strings: a line, a malformed line, a blank line, repeated line keys,
\* percent-encoded key and value, a "+" (a space once decoded), another key.
Queries ==
    {<<"?", "l", "i", "n", "e", "=", "3">>,
     <<"?", "l", "i", "n", "e", "=", "A">>,
     <<"?", "l", "i", "n", "e", "=">>,
     <<"?", "l", "i", "n", "e", "=", "3", "&", "l", "i", "n", "e", "=", "A">>,
     <<"?", "l", "i", "n", "e", "=", "A", "&", "l", "i", "n", "e", "=", "3", "3">>,
     <<"?", "l", "%", "6", "9", "n", "e", "=", "%", "3", "3">>,
     <<"?", "l", "i", "n", "e", "=", "+", "3">>,
     <<"?", "x", "=", "3">>}

\* The URI arguments: free-form text of length at most n after an editor
\* prefix, of length at most m after another prefix, and a path of length at
\* most m in front of each query string.
URIs(n, m) ==
    {p \o r : p \in EditorPrefixes, r \in Strings(Alphabet, n)}
    \cup {p \o r : p \in OtherPrefixes, r \in Strings(Alphabet, m)}
    \cup {EDITOR_PREFIX \o r \o qs : r \in Strings(QueryPathAlphabet, m), qs \in Queries}

\* The editor argument of open_editor: the keys of EDITORS and one other name.
EditorArgs == EDITORS \cup {"nano"}

\* ------------------------------------------------------------ state
VARIABLES
    uri,        \* the URI argument
    editor,     \* the editor argument
    pc,         \* where the invocation is
    result,     \* what parse_uri returned: the locals (uri, line) of open_editor
    again,      \* what parse_uri returned for 'editor://' + the returned path
    notified,   \* the messages notify-send was run with
    launched,   \* the argv of every process check_call started
    exc         \* the exception that ended the invocation, "" when none

vars == <<uri, editor, pc, result, again, notified, launched, exc>>

\* result before parse_uri has returned.
NoResult == [exc |-> "unset", path |-> <<>>, linenum |-> None]

\* ------------------------------------------------------------ notify, error
\* notify(what): run(["notify-send", what]).  run() raises FileNotFoundError
\* when there is no notify-send; its exit code is not looked at.
Notify(what, found, nextpc) ==
    /\ notified' = IF found THEN Append(notified, what) ELSE notified
    /\ exc' = IF found THEN "" ELSE "FileNotFoundError"
    /\ pc' = IF found THEN nextpc ELSE "raised"

\* error(what): notify(what), then raise RuntimeError(what).
Error(what, found) ==
    /\ notified' = IF found THEN Append(notified, what) ELSE notified
    /\ exc' = IF found THEN "RuntimeError" ELSE "FileNotFoundError"
    /\ pc' = "raised"

\* check_call(cmd): FileNotFoundError when the binary is missing, else the
\* process runs and a non-zero exit raises CalledProcessError.
CheckCall(cmd, outcome, nextpc) ==
    /\ launched' = IF outcome = "missing" THEN launched ELSE Append(launched, cmd)
    /\ exc' = CASE outcome = "missing" -> "FileNotFoundError"
                [] outcome = "nonzero" -> "CalledProcessError"
                [] OTHER -> ""
    /\ pc' = IF outcome = "zero" THEN nextpc ELSE "raised"

Outcomes == {"missing", "zero", "nonzero"}

\* ------------------------------------------------------------ parse_uri call
\* What a call of parse_uri(u) that ended as r does: error() notifies before
\* it raises; any other exception just propagates.
ParseOutcome(r, u, nextpc) ==
    IF r.exc = "RuntimeError"
    THEN /\ \E found \in BOOLEAN :
               Error([fmt |-> "Unexpected protocol {uri}", arg |-> u], found)
         /\ UNCHANGED <<result, launched>>
    ELSE IF r.exc # ""
    THEN /\ exc' = r.exc
         /\ pc' = "raised"
         /\ UNCHANGED <<result, notified, launched>>
    ELSE /\ result' = r
         /\ pc' = nextpc
         /\ UNCHANGED <<exc, notified, launched>>

CallParseUri(u, nextpc) == ParseOutcome(parse_uri(u), u, nextpc)

\* ------------------------------------------------------------ open_editor
\* open_editor, first line: uri, line = parse_uri(uri)
ParseUri ==
    /\ pc = "open_editor"
    /\ CallParseUri(uri, "dispatch")
    /\ UNCHANGED <<uri, editor, again>>

\* EDITORS.get(editor, None), with the fallback to open_vim.
Opener(ed) == IF ed \in EDITORS THEN ed ELSE "vim"

\* open_editor, the rest: look the opener up, warn and take open_vim when the
\* editor is unknown, call the opener.
Dispatch ==
    /\ pc = "dispatch"
    /\ IF editor \in EDITORS
       THEN /\ pc' = Opener(editor)
            /\ UNCHANGED <<notified, exc>>
       ELSE \E found \in BOOLEAN :
               Notify([fmt |-> "Unexpected editor {editor}! Falling back to vim",
                       arg |-> editor], found, Opener(editor))
    /\ UNCHANGED <<uri, editor, result, again, launched>>

OpenVim ==
    /\ pc = "vim"
    /\ \E outcome \in Outcomes :
          CheckCall(VimCommand(result.path, result.linenum), outcome, "returned")
    /\ UNCHANGED <<uri, editor, result, again, notified>>

OpenGvim ==
    /\ pc = "gvim"
    /\ \E outcome \in Outcomes :
          CheckCall(GvimCommand(result.path, result.linenum), outcome, "returned")
    /\ UNCHANGED <<uri, editor, result, again, notified>>

OpenEmacs ==
    /\ pc = "emacs"
    /\ \E outcome \in Outcomes :
          CheckCall(EmacsCommand(result.path, result.linenum), outcome, "returned")
    /\ UNCHANGED <<uri, editor, result, again, notified>>

\* What open_default does once no open command was found: error(...), which
\* raises, so the open_vim call after it is never reached.
NoOpenerFound(found) ==
    /\ Error([fmt |-> "No xdg-open/open found, can't figure out default editor. Fallback to vim!",
              arg |-> <<>>], found)
    /\ UNCHANGED launched

\* open_default: the first of xdg-open, open that shutil.which finds is
\* check_call'ed with the path alone.
OpenDefault ==
    /\ pc = "default"
    /\ \E has_xdg_open, has_open \in BOOLEAN :
          IF has_xdg_open \/ has_open
          THEN /\ \E outcome \in {"zero", "nonzero"} :
                     CheckCall(DefaultCommand(IF has_xdg_open THEN XDG_OPEN ELSE OPEN,
                                              result.path, result.linenum),
                               outcome, "returned")
               /\ UNCHANGED notified
          ELSE \E found \in BOOLEAN : NoOpenerFound(found)
    /\ UNCHANGED <<uri, editor, result, again>>

Init ==
    /\ uri \in URIs(MaxOpenLen, MaxOpenLen)
    /\ editor \in EditorArgs
    /\ pc = "open_editor"
    /\ result = NoResult
    /\ again = NoResult
    /\ notified = <<>>
    /\ launched = <<>>
    /\ exc = ""

Next ==
    \/ ParseUri
    \/ Dispatch
    \/ OpenVim
    \/ OpenGvim
    \/ OpenEmacs
    \/ OpenDefault

Spec == Init /\ [][Next]_vars

\* ------------------------------------------------------------ parse_uri alone
\* parse_uri applied to a URI, then to 'editor://' + the path it returned.
TestParseUri ==
    /\ pc = "test_parse_uri"
    /\ CallParseUri(uri, "parsed")
    /\ UNCHANGED <<uri, editor, again>>

TestReparse ==
    /\ pc = "parsed"
    /\ again' = parse_uri(EDITOR_PREFIX \o result.path)
    /\ pc' = "reparsed"
    /\ UNCHANGED <<uri, editor, result, notified, launched, exc>>

ParseInit ==
    /\ uri \in URIs(MaxLen, MaxQueryPathLen)
    /\ editor = "vim"
    /\ pc = "test_parse_uri"
    /\ result = NoResult
    /\ again = NoResult
    /\ notified = <<>>
    /\ launched = <<>>
    /\ exc = ""

ParseNext ==
    \/ TestParseUri
    \/ TestReparse

ParseSpec == ParseInit /\ [][ParseNext]_vars

\* ============================================================ properties
\* What urlparse makes of the URI argument.
Parsed == urlparse(uri)

\* The percent-decoded path component of the URI argument.
DecodedPath == unquote(Parsed.path)

\* parse_uri has been called on the URI argument (and returned or raised).
ParseDone == pc \notin {"test_parse_uri", "open_editor"}

\* parse_uri returned a (path, line) for the URI argument.
ParseReturned == result # NoResult

\* A path that ends in ":" followed by a text int() accepts.
EndsInLineSuffix(p) ==
    /\ RFind(p, ":") # 0
    /\ IsIntLiteral(Drop(p, RFind(p, ":")))

\* A "%" followed by two hex digits.
HasPercentEscape(p) ==
    \E k \in 1..Len(p) :
        p[k] = "%" /\ k + 2 <= Len(p) /\ IsHex(p[k + 1]) /\ IsHex(p[k + 2])

\* An absolute path that URI parsing and decoding leave as it is: no "?", no
\* "#", no percent-escape, no tab, CR or LF.
PlainAbsolutePath(p) ==
    /\ p # <<>> /\ p[1] = "/"
    /\ Range(p) \cap {"?", "#", "\t", "\r", "\n"} = {}
    /\ ~HasPercentEscape(p)

\* ---- C1
\* C1: for a URI of scheme editor whose query gives the key line a value that
\* int() accepts, parse_uri returns that integer as the line and the whole
\* decoded path, unsplit, as the path.
C1_QueryLineWins ==
    ParseDone =>
        LET pr == Parsed
            line_s == QueryLine(pr.query)
        IN  (/\ ~pr.invalid /\ pr.scheme = PROTOCOL_NAME
             /\ line_s # None
             /\ IsIntLiteral(line_s[1]))
            => /\ ParseReturned
               /\ exc = ""
               /\ result.path = unquote(pr.path)
               /\ result.linenum = Some(ParseInt(line_s[1]))

\* The line came from the query and the returned path still ends in ":<digits>".
C1_Witness ==
    /\ pc = "parsed"
    /\ QueryLine(Parsed.query) # None
    /\ result.linenum = Some(3)
    /\ EndsInLineSuffix(result.path)
    /\ result.path = DecodedPath

\* ---- C2
\* C2: for a URI of scheme editor without a line in its query, parse_uri
\* splits the decoded path at its last colon when the text after it is an
\* integer, returning (text before the colon, integer); otherwise (no colon,
\* or no integer after the last colon) it returns (whole decoded path, None).
C2_OneSplitOnLastColon ==
    ParseDone =>
        LET pr == Parsed
            decoded == unquote(pr.path)
            last == RFind(decoded, ":")
            left == Take(decoded, last - 1)
            right == Drop(decoded, last)
        IN  (/\ ~pr.invalid /\ pr.scheme = PROTOCOL_NAME
             /\ QueryLine(pr.query) = None)
            => /\ ParseReturned
               /\ exc = ""
               /\ IF last # 0 /\ IsIntLiteral(right)
                  THEN result.path = left /\ result.linenum = Some(ParseInt(right))
                  ELSE result.path = decoded /\ result.linenum = None

\* An earlier colon is followed by an integer, the last one is not: the path
\* is returned whole.
C2_Witness ==
    /\ pc = "parsed"
    /\ QueryLine(Parsed.query) = None
    /\ result.linenum = None
    /\ \E j, k \in 1..Len(result.path) :
          /\ j < k
          /\ result.path[j] = ":" /\ result.path[k] = ":"
          /\ IsIntLiteral(SubSeq(result.path, j + 1, k - 1))

\* ---- C3
\* C3: for a URI whose scheme is not editor, parse_uri raises and returns
\* nothing; open_editor never gets to the dispatcher and check_call starts no
\* process.
C3_SchemeMismatchFails ==
    (~Parsed.invalid /\ Parsed.scheme # PROTOCOL_NAME)
    => /\ pc \in {"open_editor", "raised"}
       /\ ~ParseReturned
       /\ launched = <<>>
       /\ (pc = "raised" => exc \in {"RuntimeError", "FileNotFoundError"})

\* open_editor was called for gvim with a URI of another scheme, and raised.
C3_Witness ==
    /\ pc = "raised"
    /\ exc = "RuntimeError"
    /\ Parsed.scheme = <<"b", "a", "d", "m", "i", "m", "e">>
    /\ editor = "gvim"
    /\ Len(notified) = 1

\* ---- C4
NoOpenerReported ==
    \E k \in 1..Len(notified) :
        notified[k].fmt = "No xdg-open/open found, can't figure out default editor. Fallback to vim!"

\* C4: once open_default has reported that neither xdg-open nor open exists,
\* the invocation goes on to the vim strategy: it does not end with the
\* RuntimeError of the report, and vim is launched in a terminal with the
\* same path and line.
C4_DefaultFallsBackToVim ==
    NoOpenerReported
    => /\ exc # "RuntimeError"
       /\ (pc \in {"returned", "raised"}
             => \/ launched = <<VimCommand(result.path, result.linenum)>>
                \/ (launched = <<>> /\ exc = "FileNotFoundError"))

\* ---- C5
\* A notification that reports an error (not the unknown-editor warning).
ErrorNotified ==
    \E k \in 1..Len(notified) :
        notified[k].fmt # "Unexpected editor {editor}! Falling back to vim"

\* C5: an invocation that ends with an exception has sent an error
\* notification, and one that returns has raised nothing.  (Stated for the
\* exceptions other than FileNotFoundError, which a missing notify-send
\* raises too.)
C5_FatalErrorsNotify ==
    /\ (pc = "raised" /\ exc # "FileNotFoundError") => ErrorNotified
    /\ pc = "returned" => exc = ""

\* ---- C6
\* C6: open_editor with an editor that is no key of EDITORS, once parse_uri
\* has returned, sends the warning and goes on to launch vim in the terminal
\* with the decoded path and line; it raises only when that launch fails.
C6_UnknownEditorFallsBack ==
    (editor \notin EDITORS /\ ParseReturned /\ pc # "dispatch")
    => /\ Len(notified) = 1
       /\ notified[1].fmt = "Unexpected editor {editor}! Falling back to vim"
       /\ pc \in {"vim", "returned", "raised"}
       /\ pc = "returned" => launched = <<VimCommand(result.path, result.linenum)>>
       /\ pc = "raised" => exc \in {"FileNotFoundError", "CalledProcessError"}

\* ---- C7
\* C7 as stated: whenever the returned line is populated, the returned path
\* does not end in ":<integer>".
C7_Original ==
    (ParseReturned /\ result.linenum # None) => ~EndsInLineSuffix(result.path)

\* C7, amended: whenever the returned line is populated, the returned path
\* ends in ":<integer>" only if the line was given by the query or the decoded
\* path ends in two ":<integer>" suffixes one after the other; in every other
\* case the returned path does not end in ":<integer>".
C7_NoSuffixLeft ==
    (ParseReturned /\ result.linenum # None /\ EndsInLineSuffix(result.path))
    => LET pr == Parsed
           decoded == unquote(pr.path)
       IN  \/ QueryLine(pr.query) # None
           \/ /\ EndsInLineSuffix(decoded)
              /\ EndsInLineSuffix(Take(decoded, RFind(decoded, ":") - 1))

\* A line taken from the trailing colon of a path that holds another colon.
C7_Witness ==
    /\ pc = "parsed"
    /\ QueryLine(Parsed.query) = None
    /\ result.linenum # None
    /\ ":" \in Range(result.path)
    /\ ~EndsInLineSuffix(result.path)

\* ---- C8
\* C8 as stated: parsing 'editor://' + the returned path again gives no line.
C8_Original == pc = "reparsed" => (again.exc = "" /\ again.linenum = None)

\* C8, amended: when the returned path is an absolute path that does not end
\* in ":<integer>" and holds no "?", "#", percent-escape, tab, CR or LF,
\* parsing 'editor://' + that path again gives (the same path, None).
C8_ReparseGivesNoLine ==
    (/\ pc = "reparsed"
     /\ PlainAbsolutePath(result.path)
     /\ ~EndsInLineSuffix(result.path))
    => again = Returned(result.path, None)

\* The first parse took a line off the path; the second finds none.
C8_Witness ==
    /\ pc = "reparsed"
    /\ result.linenum # None
    /\ QueryLine(Parsed.query) = None
    /\ PlainAbsolutePath(result.path)
    /\ again = Returned(result.path, None)

\* ---- C9
\* The text after 'editor://' when the URI argument starts with it.
AfterPrefix == Drop(uri, Len(EDITOR_PREFIX))

IsPrefixedPath ==
    /\ Len(uri) > Len(EDITOR_PREFIX)
    /\ Take(uri, Len(EDITOR_PREFIX)) = EDITOR_PREFIX
    /\ AfterPrefix[1] = "/"

\* C9 as stated: for an absolute path without ":" and "?",
\* parse_uri('editor://' + path) returns (path, None).
C9_Original ==
    (ParseDone /\ IsPrefixedPath /\ Range(AfterPrefix) \cap {":", "?"} = {})
    => result = Returned(AfterPrefix, None)

\* C9, amended: for an absolute path without ":", "?", "#", percent-escape,
\* tab, CR and LF, parse_uri('editor://' + path) returns (path, None).
C9_PlainPathUnchanged ==
    (/\ ParseDone
     /\ IsPrefixedPath
     /\ ":" \notin Range(AfterPrefix)
     /\ PlainAbsolutePath(AfterPrefix))
    => result = Returned(AfterPrefix, None)

\* A path with a space and a "%" that starts no escape comes back as it is.
C9_Witness ==
    /\ pc = "parsed"
    /\ IsPrefixedPath
    /\ {" ", "%"} \subseteq Range(AfterPrefix)
    /\ PlainAbsolutePath(AfterPrefix)
    /\ result = Returned(AfterPrefix, None)

\* ---- C10
\* The arguments the claim gives for the end of the command line.
LineAndPath ==
    IF result.linenum = None
    THEN <<result.path>>
    ELSE << <<"+">> \o IntToStr(result.linenum[1]), result.path >>

EndsWith(cmd, tail) ==
    /\ Len(cmd) >= Len(tail)
    /\ SubSeq(cmd, Len(cmd) - Len(tail) + 1, Len(cmd)) = tail

\* C10: the one process check_call starts is, for vim (and the fallback),
\* the terminal emulator with -e and the shell-quoted "vim [+line] path"; for
\* gvim, gvim [+line] path; for emacs, emacsclient with its options and then
\* [+line] path; for default, xdg-open or open with the path alone.  +line is
\* there exactly when the line is not None.
C10_DispatchTable ==
    (launched # <<>>)
    => /\ Len(launched) = 1
       /\ LET cmd == launched[1]
          IN  CASE Opener(editor) = "vim" ->
                     cmd = <<X_TERMINAL_EMULATOR, <<"-", "e">>,
                             JoinQuoted(<<VIM>> \o LineAndPath)>>
                [] Opener(editor) = "gvim" ->
                     cmd = <<GVIM>> \o LineAndPath
                [] Opener(editor) = "emacs" ->
                     /\ cmd[1] = EMACSCLIENT
                     /\ Len(cmd) = 3 + Len(LineAndPath)
                     /\ EndsWith(cmd, LineAndPath)
                [] OTHER ->
                     cmd \in {<<XDG_OPEN, result.path>>, <<OPEN, result.path>>}

\* vim was launched in the terminal for a path that needs quoting, at a line.
C10_Witness ==
    /\ pc = "returned"
    /\ editor = "vim"
    /\ result.linenum = Some(3)
    /\ " " \in Range(result.path)
    /\ launched = <<VimCommand(result.path, result.linenum)>>
    /\ launched[1][1] = X_TERMINAL_EMULATOR

====
